---- MODULE Spec2Model ----
(***************************************************************************)
(* A model of pingouin's contingency tests (chi2_independence,             *)
(* chi2_mcnemar) and of its repeated-measures routines (test_sphericity,   *)
(* rm_anova).                                                              *)
(*                                                                         *)
(* Every routine is a function of an in-memory table; a call is one atomic *)
(* action that stores the arguments, what the call did to them, and what   *)
(* it returned or raised.  Floating-point values are modelled by exact     *)
(* extended rationals <<n, d>> (d > 0 in lowest terms; <<1,0>> = +inf,     *)
(* <<-1,0>> = -inf, <<0,0>> = NaN) with numpy's rules for inf and NaN.     *)
(* Values of the SciPy distribution functions that are not rational        *)
(* (chi2.sf, f.sf, the power divergences other than Pearson's) are kept    *)
(* as terms naming the library function and its arguments.                 *)
(***************************************************************************)
EXTENDS Integers, Sequences, FiniteSets, TLC

----------------------------------------------------------------------------
(* Bounds of the model *)

\* largest count in a cell of the paired 2x2 table given to chi2_mcnemar
MaxCount == 6

\* most categories of x, and of y, in the data given to chi2_independence
MaxCat == 3

\* most rows (observations) of the data given to chi2_independence
MaxN == 5

\* most rows of the data that is given to chi2_independence a second time
\* with its categories renamed
MaxRelabelN == 4

\* most rows (subjects) of a matrix given to test_sphericity
MaxSubjects == 4

\* most columns (conditions) of a matrix given to test_sphericity
MaxCond == 3

\* largest sum of the entries, small non-negative integers, of the matrix
MaxSum == 4

\* most rows of the table given to rm_anova
MaxRows == 6

\* the within-subject levels of that table are 1..MaxWithin
MaxWithin == 2

\* and its dependent variable takes the values 0..MaxDv
MaxDv == 2

----------------------------------------------------------------------------
(* Extended rational arithmetic: numpy float64 semantics without rounding *)

Abs(x) == IF x < 0 THEN -x ELSE x

Sgn(x) == IF x > 0 THEN 1 ELSE IF x < 0 THEN -1 ELSE 0

Min(a, b) == IF a < b THEN a ELSE b

RECURSIVE GCD(_, _)
GCD(a, b) == IF b = 0 THEN a ELSE GCD(b, a % b)

Norm(n, d) ==
    IF d = 0 THEN <<Sgn(n), 0>>
    ELSE LET g == GCD(Abs(n), Abs(d))
             s == Sgn(d)
         IN  <<(s * n) \div g, (s * d) \div g>>

NaN == <<0, 0>>

PosInf == <<1, 0>>

NegInf == <<-1, 0>>

Zero == <<0, 1>>

One == <<1, 1>>

Half == <<1, 2>>

R(n) == <<n, 1>>

IsNaN(a) == a = NaN

IsInf(a) == a[2] = 0 /\ a[1] # 0

IsFinite(a) == a[2] > 0

RNeg(a) == <<-a[1], a[2]>>

RAdd(a, b) ==
    IF IsNaN(a) \/ IsNaN(b) THEN NaN
    ELSE IF IsInf(a) /\ IsInf(b) THEN (IF a = b THEN a ELSE NaN)
    ELSE IF IsInf(a) THEN a
    ELSE IF IsInf(b) THEN b
    ELSE Norm(a[1] * b[2] + b[1] * a[2], a[2] * b[2])

RSub(a, b) == RAdd(a, RNeg(b))

RMul(a, b) ==
    IF IsNaN(a) \/ IsNaN(b) THEN NaN
    ELSE IF IsInf(a) \/ IsInf(b)
         THEN <<Sgn(a[1]) * Sgn(b[1]), 0>>
    ELSE Norm(a[1] * b[1], a[2] * b[2])

\* float division: x/0 is +-inf, 0/0 and inf/inf are NaN (a RuntimeWarning,
\* not an exception)
RDiv(a, b) ==
    IF IsNaN(a) \/ IsNaN(b) THEN NaN
    ELSE IF IsInf(b) THEN (IF IsInf(a) THEN NaN ELSE Zero)
    ELSE IF b[1] = 0 THEN <<Sgn(a[1]), 0>>
    ELSE RMul(a, <<Sgn(b[1]) * b[2], Abs(b[1])>>)

RLt(a, b) ==
    /\ ~IsNaN(a)
    /\ ~IsNaN(b)
    /\ IF a[2] = 0 /\ b[2] = 0 THEN a[1] < b[1]
       ELSE IF a[2] = 0 THEN a[1] < 0
       ELSE IF b[2] = 0 THEN b[1] > 0
       ELSE a[1] * b[2] < b[1] * a[2]

RLe(a, b) == ~IsNaN(a) /\ ~IsNaN(b) /\ ~RLt(b, a)

\* numpy.sign
RSign(a) == IF IsNaN(a) THEN NaN ELSE R(Sgn(a[1]))

\* builtin min(a, b): b only when b < a, so a NaN in second place is dropped
RMin(a, b) == IF RLt(b, a) THEN b ELSE a

\* numpy.maximum propagates NaN
RMaximum(a, b) == IF IsNaN(a) \/ IsNaN(b) THEN NaN ELSE IF RLt(a, b) THEN b ELSE a

\* floor of a finite rational
Floor(a) == a[1] \div a[2]

\* round(x, 3): to the nearest multiple of 1/1000, ties to the even one;
\* inf and NaN are kept
Round3(a) ==
    IF ~IsFinite(a) THEN a
    ELSE LET s == <<a[1] * 1000, a[2]>>
             f == Floor(s)
             twice == 2 * (s[1] - f * s[2])
             q == IF twice > s[2] THEN f + 1
                  ELSE IF twice < s[2] THEN f
                  ELSE IF f % 2 = 0 THEN f ELSE f + 1
         IN  Norm(q, 1000)

RECURSIVE Pow2(_)
Pow2(n) == IF n = 0 THEN 1 ELSE 2 * Pow2(n - 1)

RECURSIVE Choose(_, _)
Choose(n, k) ==
    IF k < 0 \/ k > n THEN 0
    ELSE IF k = 0 THEN 1
    ELSE (Choose(n - 1, k - 1) * n) \div k

----------------------------------------------------------------------------
(* Values of SciPy's distribution functions *)

\* a value the call reports: fn = "exact" is the rational x itself; any other
\* fn names the library function whose value at x (with dof degrees of
\* freedom) is meant, a number strictly between 0 and 1 for a survival
\* function
Exact(x) == [fn |-> "exact", x |-> x, dof |-> 0]

\* scipy.stats.chi2.sf(x, dof), dof >= 1: 1 up to x = 0, 0 at +inf, NaN at NaN
Chi2Sf(x, dof) ==
    IF IsNaN(x) THEN Exact(NaN)
    ELSE IF x = PosInf THEN Exact(Zero)
    ELSE IF RLe(x, Zero) THEN Exact(One)
    ELSE [fn |-> "chi2.sf", x |-> x, dof |-> dof]

\* round(v, 3) of a reported value
RoundVal(v) ==
    IF v.fn = "exact" THEN Exact(Round3(v.x))
    ELSE [fn |-> "round3." \o v.fn, x |-> v.x, dof |-> v.dof]

\* scipy.stats.binom.cdf(k, n, 0.5) for integers 0 <= k, 0 <= n
RECURSIVE BinomCdfNum(_, _)
BinomCdfNum(k, n) == IF k < 0 THEN 0 ELSE Choose(n, k) + BinomCdfNum(k - 1, n)

BinomCdf(k, n) == IF k >= n THEN One ELSE Norm(BinomCdfNum(k, n), Pow2(n))

\* scipy.stats.binom.pmf(k, n, 0.5)
BinomPmf(k, n) == Norm(Choose(n, k), Pow2(n))

----------------------------------------------------------------------------
(* State *)

VARIABLES
    mcnemar,    \* the last chi2_mcnemar call: its arguments and its outcome
    chiData,    \* the caller's data for chi2_independence, as the table of
                \* counts pd.crosstab(data[x], data[y]) makes of it
    chi,        \* the last chi2_independence call: its outcome
    chiPrev,    \* the chi2_independence call before a relabelling, if any
    sphX,       \* the matrix a caller prepares for test_sphericity
    sph,        \* the last test_sphericity call: its outcome
    anovaData,  \* the caller's long-format table for rm_anova: its columns
    anova       \* the last rm_anova call: its outcome and local variables

vars == <<mcnemar, chiData, chi, chiPrev, sphX, sph, anovaData, anova>>

anovaVars == <<anovaData, anova>>

chiVars == <<chiData, chi, chiPrev>>

sphVars == <<sphX, sph>>

----------------------------------------------------------------------------
(* chi2_mcnemar (contingency.py) *)

\* what dichotomous_crosstab hands to chi2_mcnemar: a 2x2 table of counts,
\* rows indexed by the 0/1 value of x and columns by the 0/1 value of y
\* (obs[i + 1][j + 1] is observed.at[i, j])
DichotomousTables == [1..2 -> [1..2 -> 0..MaxCount]]

\* exact['p'] as first computed: min(1, 2 * binom.cdf(min(n1, n2), n1 + n2, 0.5))
McNemarExactP(n1, n2) ==
    RMin(One, RMul(R(2), BinomCdf(Min(n1, n2), n1 + n2)))

\* McNemarMidP with the exact p rounded before the mid-p row is built
McNemarMidPFromRounded(n1, n2) ==
    Round3(RSub(Round3(McNemarExactP(n1, n2)), BinomPmf(n2, n1 + n2)))

\* mid_p['p']: taken from the exact p before that one is rounded
McNemarMidP(n1, n2) ==
    Round3(RSub(McNemarExactP(n1, n2), BinomPmf(n2, n1 + n2)))

\* the approximated statistic; n1 and n2 are numpy integers, so the
\* division by n1 + n2 = 0 gives inf or NaN
McNemarApproxChi2(n1, n2, correction) ==
    LET c == IF correction THEN 1 ELSE 0
        num == (Abs(n1 - n2) - c) * (Abs(n1 - n2) - c)
    IN  RDiv(R(num), R(n1 + n2))

Chi2McNemar(obs, correction) ==
    LET n1 == obs[1][2]
        n2 == obs[2][1]
        chi2 == Min(n1, n2)
        exactRaw == McNemarExactP(n1, n2)
        exact == [test |-> "exact", chi2 |-> Exact(R(chi2)), dof |-> 1,
                  p |-> Exact(Round3(exactRaw))]
        mid_p == [test |-> "mid-p", chi2 |-> Exact(R(chi2)), dof |-> 1,
                  p |-> Exact(McNemarMidP(n1, n2))]
        achi2 == McNemarApproxChi2(n1, n2, correction)
        approximated == [test |-> "approximated", chi2 |-> Exact(Round3(achi2)),
                         dof |-> 1, p |-> RoundVal(Chi2Sf(achi2, 1))]
    IN  [status |-> "returned", correction |-> correction, observed |-> obs,
         stats |-> <<exact, mid_p, approximated>>]

McNemarNone ==
    [status |-> "none", correction |-> FALSE,
     observed |-> <<<<0, 0>>, <<0, 0>>>>, stats |-> <<>>]

\* one call of chi2_mcnemar(data, x, y, correction) in a fresh session
McNemarCall ==
    /\ mcnemar.status = "none"
    /\ \E obs \in DichotomousTables, correction \in BOOLEAN :
           mcnemar' = Chi2McNemar(obs, correction)
    /\ UNCHANGED <<chiVars, sphVars, anovaVars>>


----------------------------------------------------------------------------
(* chi2_independence (contingency.py) *)

\* F(v), with v computed once: a local variable of the Python code holds a
\* value, not an expression
With(v, F(_)) == CHOOSE r \in {F(x) : x \in {v}} : TRUE

RECURSIVE SumSeq(_)
SumSeq(q) == IF q = <<>> THEN 0 ELSE Head(q) + SumSeq(Tail(q))

RECURSIVE RSumSeq(_)
RSumSeq(q) == IF q = <<>> THEN Zero ELSE RAdd(Head(q), RSumSeq(Tail(q)))

NRows(t) == Len(t)

NCols(t) == IF Len(t) = 0 THEN 0 ELSE Len(t[1])

Size(t) == NRows(t) * NCols(t)

RowSum(t, i) == SumSeq(t[i])

ColSum(t, j) == SumSeq([i \in 1..NRows(t) |-> t[i][j]])

Total(t) == SumSeq([i \in 1..NRows(t) |-> RowSum(t, i)])

\* expected_freq with the first column's total used for every column
ExpectedFreqFirstColumn(observed) ==
    [i \in 1..NRows(observed) |-> [j \in 1..NCols(observed) |->
        Norm(RowSum(observed, i) * ColSum(observed, 1), Total(observed))]]

\* scipy.stats.contingency.expected_freq
ExpectedFreq(observed) ==
    With([i \in 1..NRows(observed) |-> RowSum(observed, i)], LAMBDA rows :
    With([j \in 1..NCols(observed) |-> ColSum(observed, j)], LAMBDA cols :
    With(SumSeq(rows), LAMBDA n :
        [i \in 1..NRows(observed) |-> [j \in 1..NCols(observed) |->
            Norm(rows[i] * cols[j], n)]])))

\* the degrees of freedom without the final "- 1"
DofWithoutMinusOne(expected) ==
    Size(expected) - (NRows(expected) + NCols(expected)) + 2

\* expected.size - sum(expected.shape) + expected.ndim - 1
Dof(expected) ==
    Size(expected) - (NRows(expected) + NCols(expected)) + 2 - 1

\* the adjustment with a sign that is +1 at zero
YatesSignOfZeroPositive(observed, expected) ==
    [i \in 1..NRows(observed) |-> [j \in 1..NCols(observed) |->
        RAdd(observed[i][j],
             IF RLt(RSub(expected[i][j], observed[i][j]), Zero)
             THEN RNeg(Half) ELSE Half)]]

\* observed + 0.5 * np.sign(expected - observed)
Yates(observed, expected) ==
    [i \in 1..NRows(observed) |-> [j \in 1..NCols(observed) |->
        RAdd(observed[i][j],
             RMul(Half, RSign(RSub(expected[i][j], observed[i][j]))))]]

\* Pearson's statistic: sum((f_obs - f_exp)**2 / f_exp)
Pearson(f_obs, f_exp) ==
    RSumSeq([i \in 1..NRows(f_obs) |->
        RSumSeq([j \in 1..NCols(f_obs) |->
            LET diff == RSub(f_obs[i][j], f_exp[i][j])
            IN  RDiv(RMul(diff, diff), f_exp[i][j])])])

\* scipy.stats.power_divergence(f_obs, f_exp, ddof, axis=None, lambda_):
\* (statistic, p); the statistic is rational for lambda_ = 1 only
PowerDivergence(f_obs, f_exp, ddof, lambda_) ==
    LET df == Size(f_obs) - 1 - ddof
    IN  IF lambda_ = One
        THEN With(Pearson(f_obs, f_exp), LAMBDA stat :
                 <<Exact(stat), Chi2Sf(stat, df)>>)
        ELSE <<[fn |-> "power_divergence", x |-> lambda_, dof |-> 0],
               [fn |-> "chi2.sf.power_divergence", x |-> lambda_, dof |-> df]>>

Names ==
    <<"pearson", "cressie-read", "log-likelihood",
      "freeman-tukey", "mod-log-likelihood", "neyman">>

Lambdas == <<One, <<2, 3>>, Zero, <<-1, 2>>, <<-1, 1>>, <<-2, 1>>>>

\* any cell below 5
LowCount(t) == \E i \in 1..NRows(t), j \in 1..NCols(t) : RLt(t[i][j], R(5))

ToReal(t) == [i \in 1..NRows(t) |-> [j \in 1..NCols(t) |-> R(t[i][j])]]

\* one row of the summary
StatsRow(k, observed, expected, dof, ddof) ==
    With(IF dof = 0 THEN <<Exact(Zero), Exact(One)>>
         ELSE PowerDivergence(observed, expected, ddof, Lambdas[k]),
         LAMBDA r : [test |-> Names[k], lambda |-> Round3(Lambdas[k]),
                     chi2 |-> RoundVal(r[1]), dof |-> dof, p |-> r[2]])

ChiNone ==
    [status |-> "none", correction |-> FALSE,
     expected |-> <<>>, observed |-> <<>>, stats |-> <<>>,
     warnings |-> {}, pdCalls |-> 0]

\* crosstab is pd.crosstab(data[x], data[y])
Chi2Independence(crosstab, correction) ==
    IF Size(crosstab) = 0
    THEN [ChiNone EXCEPT !.status = "raised", !.correction = correction]
    ELSE
    With(ExpectedFreq(crosstab), LAMBDA expected :
    With(ToReal(crosstab), LAMBDA counts :
    With(Dof(expected), LAMBDA dof :
    With(IF dof = 1 /\ correction THEN Yates(counts, expected) ELSE counts,
         LAMBDA observed :
    With(Size(observed) - 1 - dof, LAMBDA ddof :
        [status |-> "returned", correction |-> correction,
         expected |-> expected, observed |-> observed,
         stats |-> [k \in 1..6 |-> StatsRow(k, observed, expected, dof, ddof)],
         warnings |-> {n \in {"observed", "expected"} :
                         LowCount(IF n = "observed" THEN counts ELSE expected)},
         pdCalls |-> IF dof = 0 THEN 0 ELSE 6])))))

\* the table t with a row of zeros put in as row p
InsertRow(t, p) ==
    [i \in 1..(NRows(t) + 1) |->
        IF i < p THEN t[i]
        ELSE IF i = p THEN [j \in 1..NCols(t) |-> 0]
        ELSE t[i - 1]]

\* the table t with a column of zeros put in as column q
InsertCol(t, q) ==
    [i \in 1..NRows(t) |-> [j \in 1..(Len(t[i]) + 1) |->
        IF j < q THEN t[i][j] ELSE IF j = q THEN 0 ELSE t[i][j - 1]]]

\* the caller's data gains one row (x, y).  pd.crosstab keeps the categories
\* that occur, in sorted order: the row's x is the category of row p, or a new
\* one that sorts to place p, and its y likewise for column q
ChiObserve ==
    /\ chi.status = "none"
    /\ Total(chiData) < MaxN
    /\ \E newX, newY \in BOOLEAN :
       \E p \in 1..(NRows(chiData) + 1), q \in 1..(NCols(chiData) + 1) :
          /\ IF newX THEN NRows(chiData) < MaxCat ELSE p <= NRows(chiData)
          /\ IF newY THEN NCols(chiData) < MaxCat ELSE q <= NCols(chiData)
          /\ (NRows(chiData) = 0) => (newX /\ newY)
          /\ LET t1 == IF newX THEN InsertRow(chiData, p) ELSE chiData
                 t2 == IF newY THEN InsertCol(t1, q) ELSE t1
             IN  chiData' = [t2 EXCEPT ![p][q] = @ + 1]
    /\ UNCHANGED <<mcnemar, chi, chiPrev, sphVars, anovaVars>>

\* chi2_independence(data, x, y, correction) is called on the caller's data
ChiCall ==
    /\ chi.status = "none"
    /\ \E correction \in BOOLEAN :
           chi' = Chi2Independence(chiData, correction)
    /\ UNCHANGED <<mcnemar, chiData, chiPrev, sphVars, anovaVars>>

\* the permutation of 1..n that exchanges a and b
Swap(n, a, b) == [i \in 1..n |-> IF i = a THEN b ELSE IF i = b THEN a ELSE i]

Identity(n) == [i \in 1..n |-> i]

\* the table of the same data with its row categories renamed by pr and its
\* column categories by pc: the cell (i, j) holds what (pr[i], pc[j]) held
Relabel(t, pr, pc) ==
    [i \in 1..NRows(t) |-> [j \in 1..NCols(t) |-> t[pr[i]][pc[j]]]]

NoPrev == [perm |-> <<<<>>, <<>>>>, data |-> <<>>, call |-> ChiNone]

\* after a call that returned, the same data with two row categories or two
\* column categories exchanged is given to chi2_independence again
ChiRelabel ==
    /\ chi.status = "returned"
    /\ chiPrev = NoPrev
    /\ Total(chiData) <= MaxRelabelN
    /\ LET r == NRows(chiData)
           c == NCols(chiData)
       IN  \E perm \in
                {<<Swap(r, a, b), Identity(c)>> : a, b \in 1..r} \cup
                {<<Identity(r), Swap(c, a, b)>> : a, b \in 1..c} :
              /\ perm # <<Identity(r), Identity(c)>>
              /\ chiPrev' = [perm |-> perm, data |-> chiData, call |-> chi]
              /\ chiData' = Relabel(chiData, perm[1], perm[2])
              /\ chi' = Chi2Independence(chiData', chi.correction)
    /\ UNCHANGED <<mcnemar, sphVars, anovaVars>>

----------------------------------------------------------------------------
(* test_sphericity (parametric.py) *)

\* x**d for an integer d >= 0
RECURSIVE RPow(_, _)
RPow(x, d) == IF d = 0 THEN One ELSE RMul(x, RPow(x, d - 1))

\* the matrix M without its row i and its column j
Minor(M, i, j) ==
    [a \in 1..(Len(M) - 1) |-> [b \in 1..(Len(M) - 1) |->
        M[IF a < i THEN a ELSE a + 1][IF b < j THEN b ELSE b + 1]]]

\* the determinant of a square matrix of finite entries, by expansion along
\* the first row
RECURSIVE Laplace(_)
Laplace(M) ==
    IF Len(M) = 1 THEN M[1][1]
    ELSE RSumSeq([j \in 1..Len(M) |->
             With(Minor(M, 1, j), LAMBDA m :
                 RMul(IF j % 2 = 1 THEN M[1][j] ELSE RNeg(M[1][j]),
                      Laplace(m)))])

\* np.linalg.det: the LU factorisation of a matrix that holds an inf or a NaN
\* yields NaN
Det(M) ==
    IF \E i, j \in 1..Len(M) : ~IsFinite(M[i][j]) THEN NaN ELSE Laplace(M)

\* np.trace
Trace(M) == RSumSeq([i \in 1..Len(M) |-> M[i][i]])

\* the elements of a set of integers in increasing order
RECURSIVE Sorted(_)
Sorted(S) ==
    IF S = {} THEN <<>>
    ELSE LET lo == CHOOSE x \in S : \A y \in S : x <= y
         IN  <<lo>> \o Sorted(S \ {lo})

\* np.linalg.matrix_rank of a matrix of integers: the size of its largest
\* square submatrix with a non-zero determinant
MatrixRank(X) ==
    LET n == Len(X)
        k == Len(X[1])
        sizes == {r \in 1..Min(n, k) :
                     \E rs \in SUBSET (1..n), cs \in SUBSET (1..k) :
                         /\ Cardinality(rs) = r
                         /\ Cardinality(cs) = r
                         /\ With(Sorted(rs), LAMBDA ri :
                            With(Sorted(cs), LAMBDA ci :
                            With([a \in 1..r |-> [b \in 1..r |->
                                     R(X[ri[a]][ci[b]])]], LAMBDA sub :
                                Laplace(sub) # Zero)))}
    IN  IF sizes = {} THEN 0 ELSE CHOOSE r \in sizes : \A q \in sizes : q <= r

\* np.cov(X, rowvar=0, ddof=ddof): the columns are the variables; a
\* normalisation n - ddof <= 0 is replaced by 0.0 (with a RuntimeWarning), and
\* the division by it then gives inf and NaN entries
Cov(X, ddof) ==
    LET n == Len(X)
        k == Len(X[1])
        fact == IF n - ddof <= 0 THEN 0 ELSE n - ddof
    IN  With([j \in 1..k |-> Norm(SumSeq([i \in 1..n |-> X[i][j]]), n)],
             LAMBDA avg :
        With([i \in 1..n |-> [j \in 1..k |-> RSub(R(X[i][j]), avg[j])]],
             LAMBDA Xc :
            [a \in 1..k |-> [b \in 1..k |->
                RMul(RSumSeq([i \in 1..n |-> RMul(Xc[i][a], Xc[i][b])]),
                     RDiv(One, R(fact)))]]))

\* np.cov(X, rowvar=0, ddof=k) * k
RescaledCov(X) ==
    With(Cov(X, Len(X[1])), LAMBDA c :
        [a \in 1..Len(c) |-> [b \in 1..Len(c) |-> RMul(c[a][b], R(Len(c)))]])

\* np.linalg.det(C) / (np.trace(C) / d)**d
MauchlyW(C, d) == RDiv(Det(C), RPow(RDiv(Trace(C), R(d)), d))

\* (2 * d**2 + d + 2) / 6 * d - n - np.linalg.matrix_rank(X)
SphericityFactor(d, n, rank) ==
    RSub(RSub(RMul(RDiv(R(2 * d * d + d + 2), R(6)), R(d)), R(n)), R(rank))

\* np.log(W) * factor, factor finite: log is NaN below 0, -inf at 0, 0 at 1
\* and +inf at +inf; any other product is kept as the pair (W, factor)
LogTimes(W, factor) ==
    IF IsNaN(W) \/ RLt(W, Zero) THEN Exact(NaN)
    ELSE IF W = Zero THEN Exact(RMul(NegInf, factor))
    ELSE IF W = PosInf THEN Exact(RMul(PosInf, factor))
    ELSE IF W = One \/ factor = Zero THEN Exact(Zero)
    ELSE [fn |-> "log.times", x |-> W, by |-> factor]

\* whether np.log(W) * factor > 0, for a pair that LogTimes keeps
LogTimesPositive(W, factor) == RLt(W, One) = RLt(factor, Zero)

\* chi2.sf(chi_sq, ddof)
Chi2SfOf(chi_sq, ddof) ==
    IF chi_sq.fn = "exact" THEN Chi2Sf(chi_sq.x, ddof)
    ELSE IF ~LogTimesPositive(chi_sq.x, chi_sq.by) THEN Exact(One)
    ELSE [fn |-> "chi2.sf.log.times", x |-> chi_sq.x, by |-> chi_sq.by,
          dof |-> ddof]

Alpha05 == <<1, 20>>

Alpha01 == <<1, 100>>

\* exp(chi2.isf(alpha, ddof) / factor) to some four digits, as rows
\* <<ddof, factor, value for alpha = .05, value for alpha = .01>>
ExpIsfOver ==
    { <<1, <<-19, 6>>, <<2973, 10000>>, <<1230, 10000>>>>,
      <<1, <<-25, 6>>, <<3977, 10000>>, <<2034, 10000>>>>,
      <<1, <<-31, 6>>, <<4754, 10000>>, <<2769, 10000>>>>,
      <<1, <<-37, 6>>, <<5364, 10000>>, <<3410, 10000>>>>,
      <<1, <<-43, 6>>, <<5851, 10000>>, <<3962, 10000>>>>,
      <<1, <<-49, 6>>, <<6248, 10000>>, <<4438, 10000>>>>,
      <<3, <<-1, 1>>, <<4, 10000>>, <<0, 10000>>>>,
      <<3, <<-2, 1>>, <<201, 10000>>, <<34, 10000>>>>,
      <<3, <<-3, 1>>, <<739, 10000>>, <<228, 10000>>>>,
      <<3, <<-4, 1>>, <<1418, 10000>>, <<586, 10000>>>>,
      <<3, <<-5, 1>>, <<2095, 10000>>, <<1034, 10000>>>>,
      <<3, <<-6, 1>>, <<2719, 10000>>, <<1509, 10000>>>>,
      <<6, <<11, 2>>, <<98688, 10000>>, <<212575, 10000>>>>,
      <<6, <<9, 2>>, <<164139, 10000>>, <<419289, 10000>>>>,
      <<6, <<7, 2>>, <<36510, 1000>>, <<121924, 1000>>>>,
      <<6, <<5, 2>>, <<15395, 100>>, <<83277, 100>>>>,
      <<6, <<3, 2>>, <<4422, 1>>, <<73713, 1>>>> }

\* p > alpha.  For p = chi2.sf(log(W) * factor, ddof) with a positive
\* argument this is log(W) * factor < chi2.isf(alpha, ddof), that is
\* W > exp(isf / factor) when factor < 0 and W < exp(isf / factor) otherwise
PGreater(p, alpha) ==
    IF p.fn = "exact" THEN RLt(alpha, p.x)
    ELSE LET row == CHOOSE e \in ExpIsfOver : e[1] = p.dof /\ e[2] = p.by
             bound == IF alpha = Alpha05 THEN row[3] ELSE row[4]
         IN  IF RLt(p.by, Zero)
             THEN bound[1] * p.x[2] < p.x[1] * bound[2]
             ELSE p.x[1] * bound[2] < bound[1] * p.x[2]

SphNone ==
    [status |-> "none", alpha |-> Zero, sphericity |-> FALSE, W |-> NaN,
     p |-> Exact(NaN), factor |-> Zero, chi_sq |-> Exact(NaN)]

\* test_sphericity(X, alpha) for an n x k matrix X of integers.  With k = 1
\* np.cov gives a 0-dimensional array and np.linalg.det raises LinAlgError.
\* So it does for a matrix of one row where np.cov(rowvar=0) leaves such a
\* matrix as it is, one variable of k observations, which depends on the
\* NumPy release (X.shape[0] != 1 or m.ndim != 1 decides the transposition):
\* rowKept tells which
TestSphericity(X, alpha, rowKept) ==
    LET n == Len(X)
        k == Len(X[1])
        d == k - 1
        ddof == (d * (d + 1)) \div 2
    IN  IF k = 1 \/ (n = 1 /\ rowKept)
        THEN [SphNone EXCEPT !.status = "raised", !.alpha = alpha]
        ELSE
        With(RescaledCov(X), LAMBDA C :
        With(MauchlyW(C, d), LAMBDA W :
        With(SphericityFactor(d, n, MatrixRank(X)), LAMBDA factor :
        With(LogTimes(W, factor), LAMBDA chi_sq :
        With(Chi2SfOf(chi_sq, ddof), LAMBDA p :
            [status |-> "returned", alpha |-> alpha,
             sphericity |-> PGreater(p, alpha), W |-> W, p |-> p,
             factor |-> factor, chi_sq |-> chi_sq])))))

\* a caller sets up an n x k matrix of zeros
SphShape ==
    /\ sph.status = "none"
    /\ sphX = <<>>
    /\ \E n \in 1..MaxSubjects, k \in 1..MaxCond :
           sphX' = [i \in 1..n |-> [j \in 1..k |-> 0]]
    /\ UNCHANGED <<mcnemar, chiVars, sph, anovaVars>>

\* and raises one of its entries by one
SphAdd ==
    /\ sph.status = "none"
    /\ sphX # <<>>
    /\ SumSeq([i \in 1..Len(sphX) |-> SumSeq(sphX[i])]) < MaxSum
    /\ \E i \in 1..Len(sphX), j \in 1..Len(sphX[1]) :
           sphX' = [sphX EXCEPT ![i][j] = @ + 1]
    /\ UNCHANGED <<mcnemar, chiVars, sph, anovaVars>>

\* test_sphericity(X, alpha) is called on the matrix; the NumPy release
\* matters for a matrix of one row only
SphCall ==
    /\ sph.status = "none"
    /\ sphX # <<>>
    /\ \E alpha \in {Alpha05, Alpha01},
          rowKept \in IF Len(sphX) = 1 THEN BOOLEAN ELSE {FALSE} :
           sph' = TestSphericity(sphX, alpha, rowKept)
    /\ UNCHANGED <<mcnemar, chiVars, sphX, anovaVars>>

----------------------------------------------------------------------------
(* rm_anova (parametric.py) *)

\* A table is a function from its column names to the columns, sequences of
\* one length; "within" and "dv" stand for the columns the arguments within
\* and dv name.
NoRows == [within |-> <<>>, dv |-> <<>>]

NumRows(data) == Len(data.dv)

\* list(data[within].unique()): the levels in order of first appearance
RECURSIVE Unique(_)
Unique(q) ==
    IF q = <<>> THEN <<>>
    ELSE LET front == SubSeq(q, 1, Len(q) - 1)
             u == Unique(front)
         IN  IF \E i \in 1..Len(front) : front[i] = q[Len(q)]
             THEN u ELSE Append(u, q[Len(q)])

\* the dv values of the rows whose column col holds key, in row order
Group(data, col, key) ==
    With(Sorted({i \in 1..NumRows(data) : data[col][i] = key}), LAMBDA idx :
        [a \in 1..Len(idx) |-> R(data.dv[idx[a]])])

Mean(q) == RDiv(RSumSeq(q), R(Len(q)))

\* np.sum((q - c)**2)
SumSq(q, c) ==
    RSumSeq([a \in 1..Len(q) |-> RMul(RSub(q[a], c), RSub(q[a], c))])

\* data.groupby(col)[dv].mean(): one mean per key, keys in sorted order
GroupMeans(data, col, keys) ==
    [a \in 1..Len(keys) |-> Mean(Group(data, col, keys[a]))]

\* np.tile(np.arange(n_obs), n_rm)
Tile(n_obs, n_rm) == [i \in 1..(n_obs * n_rm) |-> (i - 1) % n_obs]

\* data['Subj'] = values: the column is added, or replaced if there is one
SetSubj(data, values) ==
    [c \in (DOMAIN data) \cup {"Subj"} |->
        IF c = "Subj" THEN values ELSE data[c]]

\* data.pivot(index='Subj', columns=within, values=dv) cannot be built when
\* two rows have the same subject and level
PivotDuplicates(data) ==
    \E i, j \in 1..NumRows(data) :
        /\ i < j
        /\ data.Subj[i] = data.Subj[j]
        /\ data.within[i] = data.within[j]

\* the pivoted table as a matrix: subjects 0..n_obs-1 down, levels in sorted
\* order across
Pivot(data, n_obs, levels) ==
    [s \in 1..n_obs |-> [c \in 1..Len(levels) |->
        LET i == CHOOSE r \in 1..NumRows(data) :
                     data.Subj[r] = s - 1 /\ data.within[r] = levels[c]
        IN  data.dv[i]]]

\* scipy.stats.f(dfn, dfd).sf(x)
FSf(x, dfn, dfd) == [fn |-> "f.sf", x |-> x, dof |-> <<dfn, dfd>>]

AnovaNone ==
    [status |-> "none", error |-> "", given |-> NoRows,
     n_rm |-> 0, n_obs |-> 0, ddof1 |-> 0, ddof2 |-> 0,
     F |-> NaN, p_unc |-> Exact(NaN), sphericity |-> FALSE,
     correction |-> FALSE, W_mauchly |-> NaN, p_mauchly |-> Exact(NaN),
     eps |-> NaN, corr_ddof1 |-> NaN, corr_ddof2 |-> NaN,
     p_corr |-> Exact(NaN)]

AnovaRaised(data, error) ==
    [AnovaNone EXCEPT !.status = "raised", !.error = error, !.given = data]

\* np.trace(v)**2 / ddof1 * np.sum(np.sum(v * v, axis=1))
Epsilon(v, ddof1) ==
    RMul(RDiv(RMul(Trace(v), Trace(v)), R(ddof1)),
         RSumSeq([a \in 1..Len(v) |->
             RSumSeq([b \in 1..Len(v) |-> RMul(v[a][b], v[a][b])])]))

\* the part of rm_anova after the subject index is assigned; data holds it
AnovaOfSubjects(given, data, n_rm, n_obs, levels, sstime, sswithin, rowKept) ==
    LET subjects == [s \in 1..n_obs |-> s - 1]
        ddof1 == n_rm - 1
        ddof2 == ddof1 * (n_obs - 1)
    IN  IF ddof1 = 0 THEN AnovaRaised(given, "ZeroDivisionError")
        ELSE IF PivotDuplicates(data) THEN AnovaRaised(given, "ValueError")
        ELSE
        With(GroupMeans(data, "Subj", subjects), LAMBDA means :
        With(RMul(R(n_rm), SumSq(means, Mean(means))), LAMBDA sssubj :
        With(RDiv(RSub(sswithin, sssubj), Norm(ddof2, ddof1)), LAMBDA mserror :
        With(RDiv(sstime, mserror), LAMBDA fval :
        With(Pivot(data, n_obs, levels), LAMBDA data_pivot :
        With(TestSphericity(data_pivot, Alpha01, rowKept), LAMBDA mauchly :
        IF mauchly.status = "raised" THEN AnovaRaised(given, "LinAlgError")
        ELSE
        With(Epsilon(Cov(data_pivot, 1), ddof1), LAMBDA eps :
        With(RMaximum(RMul(R(ddof1), eps), One), LAMBDA corr_ddof1 :
        With(RMaximum(RMul(R(ddof2), eps), One), LAMBDA corr_ddof2 :
            IF mauchly.sphericity
            THEN [AnovaNone EXCEPT
                     !.status = "returned", !.given = given,
                     !.n_rm = n_rm, !.n_obs = n_obs,
                     !.ddof1 = ddof1, !.ddof2 = ddof2, !.F = fval,
                     !.p_unc = FSf(fval, R(ddof1), R(ddof2)),
                     !.sphericity = TRUE]
            ELSE [AnovaNone EXCEPT
                     !.status = "returned", !.given = given,
                     !.n_rm = n_rm, !.n_obs = n_obs,
                     !.ddof1 = ddof1, !.ddof2 = ddof2, !.F = fval,
                     !.p_unc = FSf(fval, R(ddof1), R(ddof2)),
                     !.correction = TRUE,
                     !.W_mauchly = mauchly.W, !.p_mauchly = mauchly.p,
                     !.eps = eps, !.corr_ddof1 = corr_ddof1,
                     !.corr_ddof2 = corr_ddof2,
                     !.p_corr = FSf(fval, corr_ddof1, corr_ddof2)])))))))))

\* the per-level counts averaged instead of their maximum taken
NObsMean(groups) ==
    SumSeq([a \in 1..Len(groups) |-> Len(groups[a])]) \div Len(groups)

\* int(data.groupby(within)[dv].count().max())
NObs(groups) ==
    CHOOSE m \in {Len(groups[a]) : a \in 1..Len(groups)} :
        \A a \in 1..Len(groups) : Len(groups[a]) <= m

\* rm_anova(dv, within, data): the table as the call leaves it, and the call.
\* An empty table has n_obs = int(NaN), a ValueError; a subject index whose
\* length is not the number of rows is a ValueError of the assignment.
\* rowKept is as in TestSphericity.
RmAnova(data, rowKept) ==
    IF NumRows(data) = 0
    THEN [data |-> data, call |-> AnovaRaised(data, "ValueError")]
    ELSE
    With(Unique(data.within), LAMBDA rm :
    With(Sorted({rm[a] : a \in 1..Len(rm)}), LAMBDA levels :
    With([a \in 1..Len(levels) |-> Group(data, "within", levels[a])],
         LAMBDA groups :
        LET n_rm == Len(rm)
            n_obs == NObs(groups)
            means == [a \in 1..n_rm |-> Mean(groups[a])]
            sstime == RMul(R(n_obs), SumSq(means, Mean(means)))
            sswithin == RSumSeq([a \in 1..n_rm |->
                            SumSq(groups[a], Mean(groups[a]))])
        IN  IF n_obs * n_rm # NumRows(data)
            THEN [data |-> data, call |-> AnovaRaised(data, "ValueError")]
            ELSE With(SetSubj(data, Tile(n_obs, n_rm)), LAMBDA tagged :
                     [data |-> tagged,
                      call |-> AnovaOfSubjects(data, tagged, n_rm, n_obs,
                                               levels, sstime, sswithin,
                                               rowKept)]))))

\* the caller's table gains a row
AnovaAppend ==
    /\ anova.status = "none"
    /\ "Subj" \notin DOMAIN anovaData
    /\ NumRows(anovaData) < MaxRows
    /\ \E w \in 1..MaxWithin, x \in 0..MaxDv :
           anovaData' = [within |-> Append(anovaData.within, w),
                         dv |-> Append(anovaData.dv, x)]
    /\ UNCHANGED <<mcnemar, chiVars, sphVars, anova>>

\* the caller's table has a column of its own named 'Subj', which numbers
\* the rows from 1
AnovaLabel ==
    /\ anova.status = "none"
    /\ "Subj" \notin DOMAIN anovaData
    /\ anovaData' = SetSubj(anovaData, [i \in 1..NumRows(anovaData) |-> i])
    /\ UNCHANGED <<mcnemar, chiVars, sphVars, anova>>

\* rm_anova(dv, within, data) is called on the caller's table; the NumPy
\* release matters when the pivoted table has one row only, every level
\* occurring once
AnovaCall ==
    /\ anova.status = "none"
    /\ \E rowKept \in IF Len(Unique(anovaData.within)) = NumRows(anovaData)
                       THEN BOOLEAN ELSE {FALSE} :
       \E r \in {RmAnova(anovaData, rowKept)} :
           /\ anovaData' = r.data
           /\ anova' = r.call
    /\ UNCHANGED <<mcnemar, chiVars, sphVars>>

----------------------------------------------------------------------------
(* Specifications *)

Init ==
    /\ mcnemar = McNemarNone
    /\ chiData = <<>>
    /\ chi = ChiNone
    /\ chiPrev = NoPrev
    /\ sphX = <<>>
    /\ sph = SphNone
    /\ anovaData = NoRows
    /\ anova = AnovaNone

NextMcNemar == McNemarCall

SpecMcNemar == Init /\ [][NextMcNemar]_vars

NextChi2 == ChiObserve \/ ChiCall \/ ChiRelabel

SpecChi2 == Init /\ [][NextChi2]_vars

NextSphericity == SphShape \/ SphAdd \/ SphCall

SpecSphericity == Init /\ [][NextSphericity]_vars

NextAnova == AnovaAppend \/ AnovaLabel \/ AnovaCall

SpecAnova == Init /\ [][NextAnova]_vars

----------------------------------------------------------------------------
(* Claims about chi2_mcnemar *)

McN1 == mcnemar.observed[1][2]

McN2 == mcnemar.observed[2][1]

McReturned == mcnemar.status = "returned"

\* C2: with no discordant pairs (n1 = n2 = 0) the call raises, or its exact
\* and approximated rows both report NaN as p.
C2_NoDiscordantPairsHandled ==
    (mcnemar.status # "none" /\ McN1 = 0 /\ McN2 = 0) =>
        \/ mcnemar.status = "raised"
        \/ /\ mcnemar.stats[1].p = Exact(NaN)
           /\ mcnemar.stats[3].p = Exact(NaN)

\* C7 as stated: for n1 + n2 > 0 the mid-p row's p, as returned, is the
\* exact row's p, as returned, minus BinomialPMF(n2; n1 + n2, 0.5).
C7_MidPIsReturnedExactMinusPmf ==
    (McReturned /\ McN1 + McN2 > 0) =>
        mcnemar.stats[2].p.x =
            RSub(mcnemar.stats[1].p.x, BinomPmf(McN2, McN1 + McN2))

\* C7 amended: for n1 + n2 > 0, with e = min(1, 2 * BinomialCDF(min(n1, n2);
\* n1 + n2, 0.5)), the exact row reports round(e, 3) and the mid-p row
\* reports round(e - BinomialPMF(n2; n1 + n2, 0.5), 3).
C7_MidPIsRoundedDifference ==
    (McReturned /\ McN1 + McN2 > 0) =>
        LET n == McN1 + McN2
            e == RMin(One, RMul(R(2), BinomCdf(Min(McN1, McN2), n)))
        IN  /\ mcnemar.stats[1].p = Exact(Round3(e))
            /\ mcnemar.stats[2].p = Exact(Round3(RSub(e, BinomPmf(McN2, n))))

\* a call with discordant pairs in which the rounding of the mid-p row shows:
\* n1 = 4, n2 = 0 gives exact p = 0.125 and mid-p = round(0.0625, 3)
C7_RoundingShows ==
    /\ McReturned
    /\ McN1 = 4
    /\ McN2 = 0
    /\ mcnemar.stats[1].p.x = <<1, 8>>
    /\ mcnemar.stats[2].p.x # <<1, 16>>

----------------------------------------------------------------------------
(* Claims about chi2_independence *)

ChiReturned == chi.status = "returned"

Is2x2(t) == NRows(t) = 2 /\ NCols(t) = 2

RRowSums(t) == [i \in 1..NRows(t) |-> RSumSeq(t[i])]

RColSums(t) ==
    [j \in 1..NCols(t) |-> RSumSeq([i \in 1..NRows(t) |-> t[i][j]])]

\* C4: for a 2x2 table with correction enabled, the Pearson statistic of the
\* Yates-adjusted table is at most the Pearson statistic of the unadjusted
\* table.
C4_YatesNeverIncreasesPearson ==
    (ChiReturned /\ chi.correction /\ Is2x2(chiData)) =>
        RLe(Pearson(chi.observed, chi.expected),
            Pearson(ToReal(chiData), chi.expected))

\* C8: a call on a non-empty r x c table reports dof = (r - 1) * (c - 1) in
\* its six rows, which come in the fixed order of names; when that is 0
\* every row has chi2 = 0 and p = 1 and power_divergence is not called, with
\* or without correction.
C8_DofAndDegenerateRows ==
    ChiReturned =>
        LET d == (NRows(chiData) - 1) * (NCols(chiData) - 1)
        IN  /\ Size(chiData) > 0
            /\ DOMAIN chi.stats = 1..6
            /\ \A k \in 1..6 :
                   /\ chi.stats[k].test = Names[k]
                   /\ chi.stats[k].dof = d
            /\ (d = 0) =>
                   /\ \A k \in 1..6 :
                          /\ chi.stats[k].chi2 = Exact(Zero)
                          /\ chi.stats[k].p = Exact(One)
                   /\ chi.pdCalls = 0

\* a call with correction enabled returned for a table of one row and
\* several columns
C8_OneRowTableReturned ==
    /\ ChiReturned
    /\ chi.correction
    /\ NRows(chiData) = 1
    /\ NCols(chiData) > 1
    /\ chi.stats[6].dof = 0

\* C9: when the categories of the caller's data are permuted, the call with
\* the same correction flag returns the same dof and the same Pearson row as
\* before, and its expected and observed tables are those of the call before
\* under the same permutation.
C9_PermutationInvariant ==
    (chiPrev # NoPrev) =>
        LET old == chiPrev.call
            pr == chiPrev.perm[1]
            pc == chiPrev.perm[2]
        IN  /\ ChiReturned
            /\ chi.correction = old.correction
            /\ \A k \in 1..6 : chi.stats[k].dof = old.stats[k].dof
            /\ chi.stats[1] = old.stats[1]
            /\ Pearson(chi.observed, chi.expected) =
                   Pearson(old.observed, old.expected)
            /\ chi.expected = Relabel(old.expected, pr, pc)
            /\ chi.observed = Relabel(old.observed, pr, pc)

\* two categories were exchanged, the table changed with them, and the call
\* before applied the Yates adjustment and found a non-zero statistic
C9_PermutedYatesTable ==
    /\ chiPrev # NoPrev
    /\ chiData # chiPrev.data
    /\ chi.correction
    /\ chi.stats[1].dof = 1
    /\ chi.observed # ToReal(chiData)
    /\ chi.stats[1].chi2 # Exact(Zero)

\* C10: for a 2x2 table with correction enabled, the returned observed
\* table has the row sums, the column sums and the total of the caller's
\* table, which are those of the expected table.
C10_YatesKeepsMargins ==
    (ChiReturned /\ chi.correction /\ Is2x2(chiData)) =>
        /\ RRowSums(chi.observed) = RRowSums(ToReal(chiData))
        /\ RColSums(chi.observed) = RColSums(ToReal(chiData))
        /\ RSumSeq(RRowSums(chi.observed)) = R(Total(chiData))
        /\ RRowSums(chi.expected) = RRowSums(ToReal(chiData))
        /\ RColSums(chi.expected) = RColSums(ToReal(chiData))

\* a 2x2 call with correction enabled whose observed table was adjusted
C10_AdjustedTableReturned ==
    /\ ChiReturned
    /\ chi.correction
    /\ Is2x2(chiData)
    /\ chi.observed # ToReal(chiData)

----------------------------------------------------------------------------
(* Claims about test_sphericity *)

SphReturned == sph.status = "returned"

SphN == Len(sphX)

SphK == Len(sphX[1])

\* C5: for d = k - 1 >= 1 the factor that multiplies ln(W) is
\* (2 * d^2 + d + 2) / (6 * d) - n - rank(X).
C5_FactorDividesBy6d ==
    SphReturned =>
        LET d == SphK - 1
        IN  sph.factor =
                RSub(RSub(RDiv(R(2 * d * d + d + 2), R(6 * d)), R(SphN)),
                     R(MatrixRank(sphX)))

\* C6: for n > k >= 2 and a non-singular C = cov(X, ddof=k) * k, the
\* returned W lies in (0, 1].
C6_MauchlyWInUnitInterval ==
    (/\ SphReturned
     /\ SphN > SphK
     /\ SphK >= 2
     /\ Det(RescaledCov(sphX)) # Zero) =>
        RLt(Zero, sph.W) /\ RLe(sph.W, One)

----------------------------------------------------------------------------
(* Claims about rm_anova *)

\* C1: after a call, returned or failed, the caller's table has the columns
\* and the cells it had before the call.
C1_CallerTableUnchanged ==
    (anova.status # "none") => anovaData = anova.given

\* C3: in the Greenhouse-Geisser path, with dof1 >= 1 and epsilon > 0, the
\* corrected dof1 is at most dof1 when epsilon < 1 and is dof1 when
\* epsilon >= 1.
C3_CorrectedDofClipped ==
    (/\ anova.status = "returned"
     /\ anova.correction
     /\ anova.ddof1 >= 1
     /\ RLt(Zero, anova.eps)) =>
        /\ RLt(anova.eps, One) => RLe(anova.corr_ddof1, R(anova.ddof1))
        /\ RLe(One, anova.eps) => anova.corr_ddof1 = R(anova.ddof1)

\* the levels of the table do not all have the same number of rows
Unbalanced(data) ==
    \E i, j \in 1..NumRows(data) :
        Len(Group(data, "within", data.within[i])) #
            Len(Group(data, "within", data.within[j]))

====
